---- MODULE Spec2Model ----
(***************************************************************************)
(* A model of remove-duplicates-youtube: the duplicate removal of a        *)
(* YouTube playlist (index.py) and the import of Shazam songs into a       *)
(* playlist (shazam_import.py).                                            *)
(*                                                                         *)
(* Text.  A string is a sequence of characters and a character is a        *)
(* number: 0 is the space, an odd number is a lower-case letter and the    *)
(* even number after it is the same letter in upper case                   *)
(* (1 = a, 2 = A, 3 = b, 4 = B, 5 = c, ...).  str.lower() is Lower.        *)
(*                                                                         *)
(* Numbers.  A similarity is the exact rational num/den of the float the   *)
(* program computes; a threshold is a rational <<num, den>>.               *)
(***************************************************************************)
EXTENDS Integers, Sequences, FiniteSets, TLC

VARIABLES
    \* remove_similar_songs (index.py)
    songs,              \* the list the function is given
    title_threshold,    \* <<num, den>>
    artist_threshold,   \* <<num, den>>
    i,                  \* how many songs of the list the outer loop has taken
    filtered_songs,
    removed_songs,
    \* main (index.py)
    remote_playlist,    \* the videos of the playlist at the service, in its order
    auth,               \* how get_youtube_client ended
    playlist_id,
    eliminar,           \* the answer to 'remove duplicate/similar videos?'
    eliminar_youtube,   \* the answer to 'remove them from the YouTube playlist?'
    items_to_remove,
    idx,                \* how many of items_to_remove the delete loop has taken
    success_count,
    failed_count,
    \* add_songs_to_shazam_playlist (shazam_import.py)
    csv_rows,           \* the rows of the CSV file
    user_playlists,     \* the user's playlists at the service
    setup,              \* how get_or_create_shazam_playlist ended
    playlist_video_ids,
    search_items,       \* the items of the last search response
    best_video,         \* <<>> for None, <<item>> for an item
    best_score,
    unmatched_songs,
    failed_to_add_songs,
    \* both entry points
    calls,              \* the requests sent to the service and the sleeps, in order
    files,              \* the report files written: name -> rows
    pc                  \* where the entry point stands

dedupVars == <<songs, title_threshold, artist_threshold, i, filtered_songs,
               removed_songs>>

mainVars == <<remote_playlist, auth, playlist_id, eliminar, eliminar_youtube,
              items_to_remove, idx, success_count, failed_count>>

importVars == <<csv_rows, user_playlists, setup, playlist_video_ids,
                search_items, best_video, best_score, unmatched_songs,
                failed_to_add_songs>>

\* calculate_similarity: its arguments and the value it returns
VARIABLES string1, string2, similarity

simVars == <<string1, string2, similarity>>

vars == <<dedupVars, mainVars, importVars, simVars, calls, files, pc>>

-----------------------------------------------------------------------------
(* Bounds of the model *)

\* The longest string calculate_similarity is given on its own.
MaxLen == 3

\* The longest list remove_similar_songs is given.
MaxSongs == 3

\* The most videos the playlist at the service holds.
MaxItems == 3

\* The items of one page of playlistItems().list (maxResults=50 in the
\* program, scaled to the playlists of the model).
MaxResults == 2

\* The most rows the CSV file of an import run holds.
MaxRows == 3

\* The most items a search response holds (maxResults=5 in the program,
\* scaled).
MaxCandidates == 2

-----------------------------------------------------------------------------
(* Helpers on sequences *)

Range(s) == {s[n] : n \in 1..Len(s)}

SeqsUpTo(S, n) == UNION {[1..m -> S] : m \in 0..n}

Min(a, b) == IF a <= b THEN a ELSE b

-----------------------------------------------------------------------------
(* Text *)

\* str.lower() of one character
LowerChar(c) == IF c > 0 /\ c % 2 = 0 THEN c - 1 ELSE c

\* str.lower()
Lower(s) == [n \in 1..Len(s) |-> LowerChar(s[n])]

-----------------------------------------------------------------------------
(* difflib.SequenceMatcher(None, a, b).ratio(), as calculate_similarity    *)
(* uses it: no junk, and no popular-element heuristic below 200 characters.*)
(* Indices are Python's: a[alo:ahi] is a[alo+1] .. a[ahi] here.            *)

\* The starts <<i, j>> of the blocks of size k: a[i:i+k] = b[j:j+k], within
\* a[alo:ahi] and b[blo:bhi]
BlocksOfSize(a, b, alo, ahi, blo, bhi, k) ==
    {p \in (alo..ahi) \X (blo..bhi) :
        /\ p[1] + k <= ahi
        /\ p[2] + k <= bhi
        /\ \A d \in 1..k : a[p[1] + d] = b[p[2] + d]}

\* Of the blocks that start at `starts`, the one that starts earliest in a,
\* and of those the one that starts earliest in b
EarliestBlock(starts, size) ==
    LET best == CHOOSE p \in starts :
                    \A q \in starts : p[1] < q[1] \/ (p[1] = q[1] /\ p[2] <= q[2])
    IN  <<best[1], best[2], size>>

\* The largest size there is a block of
LongestSize(blocks, longest) ==
    CHOOSE k \in 0..longest : blocks[k] # {} /\ blocks[k + 1] = {}

LongestBlock(blocks, size) == EarliestBlock(blocks[size], size)

\* The block SequenceMatcher.find_longest_match returns: <<i, j, k>> with
\* a[i:i+k] = b[j:j+k], k the largest there is in a[alo:ahi] and b[blo:bhi],
\* of those the one that starts earliest in a, of those the earliest in b.
BlockAmong(blocks, longest) == LongestBlock(blocks, LongestSize(blocks, longest))

find_longest_match(a, b, alo, ahi, blo, bhi) ==
    BlockAmong([k \in 0..(Min(ahi - alo, bhi - blo) + 1) |->
                   BlocksOfSize(a, b, alo, ahi, blo, bhi, k)],
               Min(ahi - alo, bhi - blo))

\* The sum of the sizes of SequenceMatcher.get_matching_blocks: the longest
\* block m, then the same to its left and to its right.
RECURSIVE matching_size(_, _, _, _, _, _)
RECURSIVE MatchedAround(_, _, _, _, _, _, _)
MatchedAround(a, b, alo, ahi, blo, bhi, m) ==
    IF m[3] = 0 THEN 0
    ELSE m[3]
         + (IF alo < m[1] /\ blo < m[2]
            THEN matching_size(a, b, alo, m[1], blo, m[2]) ELSE 0)
         + (IF m[1] + m[3] < ahi /\ m[2] + m[3] < bhi
            THEN matching_size(a, b, m[1] + m[3], ahi, m[2] + m[3], bhi) ELSE 0)

matching_size(a, b, alo, ahi, blo, bhi) ==
    MatchedAround(a, b, alo, ahi, blo, bhi,
                  find_longest_match(a, b, alo, ahi, blo, bhi))

\* SequenceMatcher.ratio(): 2.0 * matches / length, and 1.0 when both are empty
ratio(a, b) ==
    IF Len(a) + Len(b) = 0
    THEN [num |-> 1, den |-> 1]
    ELSE [num |-> 2 * matching_size(a, b, 0, Len(a), 0, Len(b)),
          den |-> Len(a) + Len(b)]

calculate_similarity(str1, str2) == ratio(Lower(str1), Lower(str2))

\* AtLeast with > for >=
AtLeastStrict(r, t) == r.num * t[2] > t[1] * r.den

\* r >= t, r a similarity and t a threshold <<num, den>>
AtLeast(r, t) == r.num * t[2] >= t[1] * r.den

\* round(r, 2), in hundredths (a tie goes to the even hundredth)
Round2(r) ==
    LET q == (100 * r.num) \div r.den
        rem2 == 2 * ((100 * r.num) % r.den)
    IN  IF rem2 > r.den \/ (rem2 = r.den /\ q % 2 = 1) THEN q + 1 ELSE q

-----------------------------------------------------------------------------
(* remove_similar_songs *)

\* FirstSimilar taking the last song it duplicates
LastSimilar(song, filtered, tt, at) ==
    LET Hits == {n \in 1..Len(filtered) :
                    /\ AtLeast(calculate_similarity(song.titulo, filtered[n].titulo), tt)
                    /\ AtLeast(calculate_similarity(song.artista, filtered[n].artista), at)}
    IN  IF Hits = {} THEN 0 ELSE CHOOSE n \in Hits : \A m \in Hits : n >= m

\* The first song of filtered_songs that song duplicates, as a position of
\* filtered_songs, or 0: the inner loop up to its break.
FirstSimilar(song, filtered, tt, at) ==
    LET Hits == {n \in 1..Len(filtered) :
                    /\ AtLeast(calculate_similarity(song.titulo, filtered[n].titulo), tt)
                    /\ AtLeast(calculate_similarity(song.artista, filtered[n].artista), at)}
    IN  IF Hits = {} THEN 0 ELSE CHOOSE n \in Hits : \A m \in Hits : n <= m

\* Evidence with 'cancion' and 'similar_a' exchanged
EvidenceSwapped(song, filtered_song) ==
    [cancion |-> filtered_song,
     similar_a |-> song,
     similaridad_titulo |->
         Round2(calculate_similarity(song.titulo, filtered_song.titulo)),
     similaridad_artista |->
         Round2(calculate_similarity(song.artista, filtered_song.artista))]

\* What one round of the outer loop appends to removed_songs
Evidence(song, filtered_song) ==
    [cancion |-> song,
     similar_a |-> filtered_song,
     similaridad_titulo |->
         Round2(calculate_similarity(song.titulo, filtered_song.titulo)),
     similaridad_artista |->
         Round2(calculate_similarity(song.artista, filtered_song.artista))]

\* RoundWith without the test of is_duplicate: every song is appended
RoundKeepAll(song, st, n) ==
    [filtered |-> Append(st.filtered, song),
     removed |-> IF n # 0
                 THEN Append(st.removed, Evidence(song, st.filtered[n]))
                 ELSE st.removed]

\* The end of a round of the outer loop, n the position in filtered_songs
\* of the song the inner loop broke at, 0 if it ran to its end
RoundWith(song, st, n) ==
    IF n # 0
    THEN [filtered |-> st.filtered,
          removed |-> Append(st.removed, Evidence(song, st.filtered[n]))]
    ELSE [filtered |-> Append(st.filtered, song),
          removed |-> st.removed]

\* DedupRound without the inner loop: no song is found similar
DedupRoundNoTest(song, st, tt, at) == RoundWith(song, st, 0)

\* One round of the outer loop: the lists after it
DedupRound(song, st, tt, at) ==
    RoundWith(song, st, FirstSimilar(song, st.filtered, tt, at))

\* The whole function: (filtered_songs, removed_songs)
RECURSIVE DedupFrom(_, _, _, _, _)
DedupFrom(list, n, st, tt, at) ==
    IF n > Len(list) THEN st
    ELSE DedupFrom(list, n + 1, DedupRound(list[n], st, tt, at), tt, at)

remove_similar_songs(list, tt, at) ==
    DedupFrom(list, 1, [filtered |-> <<>>, removed |-> <<>>], tt, at)

-----------------------------------------------------------------------------
(* The inputs of remove_similar_songs *)

VideoIds == {"v1", "v2"}

\* "abcd" and "Ab"
DedupTitles == {<<1, 3, 5, 7>>, <<2, 3>>}

\* "a", "b" and "ab"
DedupArtists == {<<1>>, <<3>>, <<1, 3>>}

\* (title_threshold, artist_threshold): a loose pair, 2/3 and 2/3, and the
\* defaults, 0.8 and 0.9
Thresholds == {<<<<2, 3>>, <<2, 3>>>>, <<<<4, 5>>, <<9, 10>>>>}

\* A playlist's items as get_playlist_songs makes them: the playlistItemId
\* is the service's, one per placement; here the placement's number.
SongInfo(video, n) ==
    [id |-> video.id, playlistItemId |-> n,
     titulo |-> video.titulo, artista |-> video.artista]

DedupVideos == [id : VideoIds, titulo : DedupTitles, artista : DedupArtists]

\* No file written
NoFiles == [n \in {} |-> <<>>]

\* files with one more file
WriteFile(fs, name, rows) == (name :> rows) @@ fs

Written(name) == name \in DOMAIN files

\* add_songs_to_shazam_playlist (shazam_import.py) has not run
ImportIdle ==
    /\ csv_rows = <<>>
    /\ user_playlists = <<>>
    /\ setup = "none"
    /\ playlist_video_ids = {}
    /\ search_items = <<>>
    /\ best_video = <<>>
    /\ best_score = [num |-> 0, den |-> 1]
    /\ unmatched_songs = <<>>
    /\ failed_to_add_songs = <<>>

\* main (index.py) has not run
MainIdle ==
    /\ remote_playlist = <<>>
    /\ auth = "none"
    /\ playlist_id = ""
    /\ eliminar = ""
    /\ eliminar_youtube = ""
    /\ items_to_remove = <<>>
    /\ idx = 0
    /\ success_count = 0
    /\ failed_count = 0

\* calculate_similarity has not been called on its own
SimIdle ==
    /\ string1 = <<>>
    /\ string2 = <<>>
    /\ similarity = [num |-> 1, den |-> 1]

DedupInit ==
    /\ \E vs \in SeqsUpTo(DedupVideos, MaxSongs) :
          songs = [n \in 1..Len(vs) |-> SongInfo(vs[n], n)]
    /\ \E th \in Thresholds :
          /\ title_threshold = th[1]
          /\ artist_threshold = th[2]
    /\ i = 0
    /\ filtered_songs = <<>>
    /\ removed_songs = <<>>
    /\ MainIdle
    /\ ImportIdle
    /\ calls = <<>>
    /\ files = NoFiles
    /\ pc = "dedup"
    /\ SimIdle

\* The lists become those of st
Lists(st) ==
    /\ filtered_songs' = st.filtered
    /\ removed_songs' = st.removed

\* for i, song in enumerate(songs): one round
DedupStep ==
    /\ pc = "dedup"
    /\ i < Len(songs)
    /\ Lists(DedupRound(songs[i + 1],
                        [filtered |-> filtered_songs, removed |-> removed_songs],
                        title_threshold, artist_threshold))
    /\ i' = i + 1
    /\ UNCHANGED <<importVars, songs, title_threshold, artist_threshold, mainVars, calls,
                   files, pc>>
    /\ UNCHANGED simVars

\* return filtered_songs, removed_songs
DedupReturn ==
    /\ pc = "dedup"
    /\ i = Len(songs)
    /\ pc' = "returned"
    /\ UNCHANGED <<importVars, dedupVars, mainVars, calls, files>>
    /\ UNCHANGED simVars

DedupNext == DedupStep \/ DedupReturn

SpecDedup == DedupInit /\ [][DedupNext]_vars

-----------------------------------------------------------------------------
(* calculate_similarity on its own *)

\* The characters of the strings: a, A, b, c
SimChars == {1, 2, 3, 5}

SimStrings == SeqsUpTo(SimChars, MaxLen)

SimInit ==
    /\ string1 \in SimStrings
    /\ string2 \in SimStrings
    /\ similarity = [num |-> 1, den |-> 1]
    /\ songs = <<>>
    /\ title_threshold = <<0, 1>>
    /\ artist_threshold = <<0, 1>>
    /\ i = 0
    /\ filtered_songs = <<>>
    /\ removed_songs = <<>>
    /\ MainIdle
    /\ ImportIdle
    /\ calls = <<>>
    /\ files = NoFiles
    /\ pc = "sim"

\* return SequenceMatcher(None, str1.lower(), str2.lower()).ratio()
SimCalculate ==
    /\ pc = "sim"
    /\ similarity' = calculate_similarity(string1, string2)
    /\ pc' = "compared"
    /\ UNCHANGED <<dedupVars, mainVars, importVars, string1, string2, calls, files>>

SimNext == SimCalculate

SpecSim == SimInit /\ [][SimNext]_vars

-----------------------------------------------------------------------------
(* get_youtube_client *)

\* What get_youtube_client finds: token.pickle (none, valid, expired with a
\* refresh token, not valid and not to be refreshed, unreadable), whether the
\* refresh works, config.json (missing, unreadable, without a client id or
\* secret, with a placeholder id, valid), whether the browser flow and
\* build() work.
AuthEnvs ==
    [token : {"none", "valid", "expired", "invalid", "corrupt"},
     refresh_ok : BOOLEAN,
     config : {"missing", "corrupt", "empty", "TU_CLIENT_ID_AQUI",
               "YOUR_CLIENT_ID_HERE", "valid"},
     flow_ok : BOOLEAN,
     build_ok : BOOLEAN]

\* How get_youtube_client ends: "ok" is (youtube, True); "no_config",
\* "bad_config", "flow_error" and "build_error" are (None, False); "raised"
\* is an exception it does not catch (pickle.load, json.load).  placeholder
\* is the client id the entry point rejects.  Credentials that are not valid
\* and cannot be refreshed go to build() as they are.
get_youtube_client(env, placeholder) ==
    LET creds == CASE env.token = "none" -> "none"
                   [] env.token = "expired" ->
                          IF env.refresh_ok THEN "valid" ELSE "none"
                   [] OTHER -> env.token
        Build == IF env.build_ok THEN "ok" ELSE "build_error"
    IN  IF env.token = "corrupt" THEN "raised"
        ELSE IF creds # "none" THEN Build
        ELSE IF env.config = "missing" THEN "no_config"
        ELSE IF env.config = "corrupt" THEN "raised"
        ELSE IF env.config \in {"empty", placeholder} THEN "bad_config"
        ELSE IF ~env.flow_ok THEN "flow_error"
        ELSE Build

\* get_youtube_client returned (None, False)
AuthFailed(a) == a \in {"no_config", "bad_config", "flow_error", "build_error"}

-----------------------------------------------------------------------------
(* main (index.py) *)

\* The videos a playlist holds: "abcde", "abcd" and "ABCD" of channel "a",
\* and "abcd" of channel "b"
MainVideos ==
    {[id |-> "v1", titulo |-> <<1, 3, 5, 7, 9>>, artista |-> <<1>>],
     [id |-> "v2", titulo |-> <<1, 3, 5, 7>>, artista |-> <<1>>],
     [id |-> "v3", titulo |-> <<2, 4, 6, 8>>, artista |-> <<1>>],
     [id |-> "v4", titulo |-> <<1, 3, 5, 7>>, artista |-> <<3>>]}

\* The thresholds main passes: 0.8 and 0.9
MainTitleThreshold == <<4, 5>>
MainArtistThreshold == <<9, 10>>

\* The answers to a y/n prompt, stripped and lower-cased
Answers == {"y", "s", "n", ""}

\* answer in ['s', 'y']
Yes(answer) == answer \in {"s", "y"}

\* A request sent to the service, and whether it succeeded
Call(op, arg, ok) == [op |-> op, arg |-> arg, ok |-> ok]

\* a < b for strings
LexLess(a, b) ==
    \E n \in 1..(Min(Len(a), Len(b)) + 1) :
        /\ \A m \in 1..(n - 1) : a[m] = b[m]
        /\ n <= Len(b)
        /\ (n > Len(a) \/ a[n] < b[n])

\* list.sort(key=lambda x: x['titulo'].lower()) puts x, the next song, after
\* the songs whose key is not greater than its own: the sort is stable
InsertByTitle(sorted, x) ==
    LET p == Cardinality({n \in 1..Len(sorted) :
                 ~LexLess(Lower(x.titulo), Lower(sorted[n].titulo))})
    IN  SubSeq(sorted, 1, p) \o <<x>> \o SubSeq(sorted, p + 1, Len(sorted))

RECURSIVE SortFrom(_, _, _)
SortFrom(list, n, sorted) ==
    IF n > Len(list) THEN sorted
    ELSE SortFrom(list, n + 1, InsertByTitle(sorted, list[n]))

\* SortByTitle without the sort: the songs in the order fetched
SortKeepOrder(list) == list

\* songs.sort(key=lambda x: x['titulo'].lower())
SortByTitle(list) == SortFrom(list, 1, <<>>)

\* The pages get_playlist_items asks for when every request succeeds
NumPages(n) == IF n = 0 THEN 1 ELSE (n + MaxResults - 1) \div MaxResults

\* get_playlist_items when its first `pages` requests succeed: the items it
\* returns (those of the pages it got) and the requests it sent
get_playlist_items(playlist, pages) ==
    LET all == NumPages(Len(playlist))
        got == Min(pages * MaxResults, Len(playlist))
        sent == IF pages = all THEN all ELSE pages + 1
    IN  [items |-> [n \in 1..got |-> SongInfo(playlist[n], n)],
         calls |-> [n \in 1..sent |-> Call("playlistItems.list", n, n <= pages)]]

MainInit ==
    /\ remote_playlist \in SeqsUpTo(MainVideos, MaxItems)
    /\ songs = <<>>
    /\ title_threshold = MainTitleThreshold
    /\ artist_threshold = MainArtistThreshold
    /\ i = 0
    /\ filtered_songs = <<>>
    /\ removed_songs = <<>>
    /\ auth = "none"
    /\ playlist_id = ""
    /\ eliminar = ""
    /\ eliminar_youtube = ""
    /\ items_to_remove = <<>>
    /\ idx = 0
    /\ success_count = 0
    /\ failed_count = 0
    /\ ImportIdle
    /\ calls = <<>>
    /\ files = NoFiles
    /\ pc = "main"
    /\ SimIdle

\* youtube, is_authenticated = get_youtube_client(), and the return when it
\* failed
MainAuthenticate ==
    /\ pc = "main"
    /\ \E env \in AuthEnvs :
          LET r == get_youtube_client(env, "TU_CLIENT_ID_AQUI")
          IN  /\ auth' = r
              /\ pc' = CASE r = "ok" -> "ask_playlist"
                         [] r = "raised" -> "crashed"
                         [] OTHER -> "done"
    /\ UNCHANGED <<importVars, dedupVars, remote_playlist, playlist_id, eliminar,
                   eliminar_youtube, items_to_remove, idx, success_count,
                   failed_count, calls, files>>
    /\ UNCHANGED simVars

\* playlist_id = input(...).strip(), and the return when it is empty
MainAskPlaylist ==
    /\ pc = "ask_playlist"
    /\ \E answer \in {"", "PL1"} :
          /\ playlist_id' = answer
          /\ pc' = IF answer = "" THEN "done" ELSE "get_songs"
    /\ UNCHANGED <<importVars, dedupVars, remote_playlist, auth, eliminar, eliminar_youtube,
                   items_to_remove, idx, success_count, failed_count, calls, files>>
    /\ UNCHANGED simVars

\* songs = get_playlist_songs(playlist_id, youtube): the playlist's
\* information, its items page by page, the sort, playlist_songs.json; []
\* when the playlist is not found or an exception is caught.  Then main's
\* `if songs:`.
MainGetPlaylistSongs ==
    /\ pc = "get_songs"
    /\ \E out \in {"list_error", "not_found", "item_error", "ok"},
          pages \in 0..NumPages(Len(remote_playlist)) :
          LET info == Call("playlists.list", playlist_id, out # "list_error")
              got == get_playlist_items(remote_playlist, pages)
              result == IF out = "ok" THEN SortByTitle(got.items) ELSE <<>>
          IN  /\ out \in {"list_error", "not_found"} => pages = 0
              /\ calls' = IF out \in {"list_error", "not_found"}
                          THEN Append(calls, info)
                          ELSE Append(calls, info) \o got.calls
              /\ files' = IF out = "ok"
                          THEN WriteFile(files, "playlist_songs.json", result)
                          ELSE files
              /\ songs' = result
              /\ pc' = IF result # <<>> THEN "ask_remove" ELSE "done"
    /\ UNCHANGED <<importVars, title_threshold, artist_threshold, i, filtered_songs,
                   removed_songs, mainVars>>
    /\ UNCHANGED simVars

\* The end of main: playlist_songs_removed.json when there are removed songs
SaveRemoved(removed) ==
    IF removed # <<>>
    THEN WriteFile(files, "playlist_songs_removed.json", removed)
    ELSE files

\* eliminar = input(...), and remove_similar_songs when the answer is yes
MainAskRemove ==
    /\ pc = "ask_remove"
    /\ \E answer \in Answers :
          LET r == IF Yes(answer)
                   THEN remove_similar_songs(songs, MainTitleThreshold,
                                             MainArtistThreshold)
                   ELSE [filtered |-> songs, removed |-> <<>>]
          IN  /\ eliminar' = answer
              /\ filtered_songs' = r.filtered
              /\ removed_songs' = r.removed
              /\ pc' = IF r.removed # <<>> THEN "ask_youtube" ELSE "done"
    /\ UNCHANGED <<importVars, songs, title_threshold, artist_threshold, i, remote_playlist,
                   auth, playlist_id, eliminar_youtube, items_to_remove, idx,
                   success_count, failed_count, calls, files>>
    /\ UNCHANGED simVars

\* ItemsToRemove taking the song each removed song is similar to
ItemsToRemoveKept(removed) ==
    [n \in 1..Len(removed) |-> removed[n].similar_a.playlistItemId]

\* items_to_remove = [item['cancion']['playlistItemId'] for item in removed_songs]
ItemsToRemove(removed) ==
    [n \in 1..Len(removed) |-> removed[n].cancion.playlistItemId]

\* eliminar_youtube = input(...): items_to_remove when the answer is yes,
\* the end of main when it is not
MainAskRemoveYoutube ==
    /\ pc = "ask_youtube"
    /\ \E answer \in Answers :
          /\ eliminar_youtube' = answer
          /\ IF Yes(answer)
             THEN /\ items_to_remove' = ItemsToRemove(removed_songs)
                  /\ pc' = "deleting"
                  /\ files' = files
             ELSE /\ items_to_remove' = items_to_remove
                  /\ pc' = "done"
                  /\ files' = SaveRemoved(removed_songs)
    /\ UNCHANGED <<importVars, dedupVars, remote_playlist, auth, playlist_id, eliminar, idx,
                   success_count, failed_count, calls>>
    /\ UNCHANGED simVars

\* MainDeleteOne with a failed request ending the loop
MainDeleteOneAbort ==
    /\ pc = "deleting"
    /\ idx < Len(items_to_remove)
    /\ \E ok \in BOOLEAN :
          /\ calls' = Append(calls,
                             Call("playlistItems.delete", items_to_remove[idx + 1], ok))
          /\ success_count' = IF ok THEN success_count + 1 ELSE success_count
          /\ failed_count' = IF ok THEN failed_count ELSE failed_count + 1
          /\ idx' = IF ok THEN idx + 1 ELSE Len(items_to_remove)
    /\ UNCHANGED <<importVars, dedupVars, remote_playlist, auth, playlist_id, eliminar,
                   eliminar_youtube, items_to_remove, files, pc>>
    /\ UNCHANGED simVars

\* remove_videos_from_playlist: one round of its loop, the delete request
\* succeeding or raising
MainDeleteOne ==
    /\ pc = "deleting"
    /\ idx < Len(items_to_remove)
    /\ \E ok \in BOOLEAN :
          /\ calls' = Append(calls,
                             Call("playlistItems.delete", items_to_remove[idx + 1], ok))
          /\ success_count' = IF ok THEN success_count + 1 ELSE success_count
          /\ failed_count' = IF ok THEN failed_count ELSE failed_count + 1
    /\ idx' = idx + 1
    /\ UNCHANGED <<importVars, dedupVars, remote_playlist, auth, playlist_id, eliminar,
                   eliminar_youtube, items_to_remove, files, pc>>
    /\ UNCHANGED simVars

\* remove_videos_from_playlist returns, and the end of main
MainDeleteReturn ==
    /\ pc = "deleting"
    /\ idx = Len(items_to_remove)
    /\ files' = SaveRemoved(removed_songs)
    /\ pc' = "done"
    /\ UNCHANGED <<importVars, dedupVars, mainVars, calls>>
    /\ UNCHANGED simVars

MainNext ==
    \/ MainAuthenticate
    \/ MainAskPlaylist
    \/ MainGetPlaylistSongs
    \/ MainAskRemove
    \/ MainAskRemoveYoutube
    \/ MainDeleteOne
    \/ MainDeleteReturn

SpecMain == MainInit /\ [][MainNext]_vars

-----------------------------------------------------------------------------
(* import_songs_from_csv *)

\* str.strip(): without the spaces at both ends
Strip(s) ==
    LET Inked == {n \in 1..Len(s) : s[n] # 0}
    IN  IF Inked = {} THEN <<>>
        ELSE SubSeq(s, CHOOSE n \in Inked : \A m \in Inked : n <= m,
                       CHOOSE n \in Inked : \A m \in Inked : n >= m)

\* "title" and "artist"
TitleWord == <<39, 17, 39, 23, 9>>
ArtistWord == <<1, 35, 39, 17, 37, 39>>

\* The rows after row n - 1: a row of at least 4 columns gives (row[2],
\* row[3]) unless one is empty, the pair is a header or it was seen
RECURSIVE ParseFrom(_, _, _)
ParseFrom(rows, n, out) ==
    IF n > Len(rows) THEN out
    ELSE LET row == rows[n]
             takes == /\ Len(row) >= 4
                      /\ row[3] # <<>>
                      /\ row[4] # <<>>
                      /\ ~(/\ Lower(Strip(row[3])) = TitleWord
                           /\ Lower(Strip(row[4])) = ArtistWord)
                      /\ <<row[3], row[4]>> \notin Range(out)
         IN  ParseFrom(rows, n + 1,
                       IF takes THEN Append(out, <<row[3], row[4]>>) ELSE out)

\* import_songs_from_csv without next(reader, None)
ParseAll(rows) == ParseFrom(rows, 1, <<>>)

\* The songs of a file that was read: next(reader, None) skips the first row
import_songs_from_csv(rows) == ParseFrom(rows, 2, <<>>)

\* The rows of a CSV file: "ab" by "a"; "Ab" by "a"; "Title", "Artist";
\* " title", "artist "; a row of three columns; a row without artist; a row
\* of five columns, "ab" by "b"
ParseRows ==
    {<<<<>>, <<>>, <<1, 3>>, <<1>>>>,
     <<<<>>, <<>>, <<2, 3>>, <<1>>>>,
     <<<<>>, <<>>, <<40, 17, 39, 23, 9>>, <<2, 35, 39, 17, 37, 39>>>>,
     <<<<>>, <<>>, <<0, 39, 17, 39, 23, 9>>, <<1, 35, 39, 17, 37, 39, 0>>>>,
     <<<<>>, <<>>, <<1, 3>>>>,
     <<<<>>, <<>>, <<1, 3>>, <<>>>>,
     <<<<>>, <<>>, <<1, 3>>, <<3>>, <<1>>>>}

\* A file that can be read, before import_songs_from_csv reads it
ParseInit ==
    /\ csv_rows \in SeqsUpTo(ParseRows, MaxRows)
    /\ songs = <<>>
    /\ title_threshold = <<0, 1>>
    /\ artist_threshold = <<0, 1>>
    /\ i = 0
    /\ filtered_songs = <<>>
    /\ removed_songs = <<>>
    /\ MainIdle
    /\ user_playlists = <<>>
    /\ setup = "none"
    /\ playlist_video_ids = {}
    /\ search_items = <<>>
    /\ best_video = <<>>
    /\ best_score = [num |-> 0, den |-> 1]
    /\ unmatched_songs = <<>>
    /\ failed_to_add_songs = <<>>
    /\ calls = <<>>
    /\ files = NoFiles
    /\ pc = "parse"
    /\ SimIdle

\* import_songs_from_csv on a file that is read to its end: return songs
ParseFile ==
    /\ pc = "parse"
    /\ songs' = import_songs_from_csv(csv_rows)
    /\ pc' = "parsed"
    /\ UNCHANGED <<title_threshold, artist_threshold, i, filtered_songs,
                   removed_songs, mainVars, importVars, calls, files>>
    /\ UNCHANGED simVars

ParseNext == ParseFile

SpecParse == ParseInit /\ [][ParseNext]_vars

-----------------------------------------------------------------------------
(* The match of a song among the items of a search response *)

\* (st + sa) / 2
Mean(st, sa) ==
    [num |-> st.num * sa.den + sa.num * st.den, den |-> 2 * st.den * sa.den]

\* score = (score_title + score_artist) / 2
Score(title, artist, item) ==
    Mean(calculate_similarity(title, item.title),
         calculate_similarity(artist, item.channelTitle))

\* r > q
Greater(r, q) == r.num * q.den > q.num * r.den

\* Greater with >= for >
GreaterOrEqual(r, q) == r.num * q.den >= q.num * r.den

\* score > best_score
Better(score, best) == Greater(score, best)

\* if score > best_score: best_score = score; best_video = item
BestWith(best, score, item) ==
    IF Better(score, best.score) THEN [score |-> score, video |-> <<item>>]
    ELSE best

\* The loop over the items from item n on, best = (best_score, best_video)
RECURSIVE BestFrom(_, _, _, _, _)
BestFrom(title, artist, items, n, best) ==
    IF n > Len(items) THEN best
    ELSE BestFrom(title, artist, items, n + 1,
                  BestWith(best, Score(title, artist, items[n]), items[n]))

\* best_score = 0, best_video = None, and the loop
select_best(title, artist, items) ==
    BestFrom(title, artist, items, 1,
             [score |-> [num |-> 0, den |-> 1], video |-> <<>>])

\* if best_video and best_score > 0.5
Accepted(best) == best.video # <<>> /\ Greater(best.score, [num |-> 1, den |-> 2])

-----------------------------------------------------------------------------
(* add_songs_to_shazam_playlist (shazam_import.py) *)

\* playlist_title = "Shazam Songs"
ShazamSongs == <<38, 15, 1, 51, 1, 25, 0, 38, 29, 27, 13, 37>>

\* The rows of the CSV file of an import run: "ab" by "a", "abcd" by "a"
ImportRows ==
    {<<<<>>, <<>>, <<1, 3>>, <<1>>>>,
     <<<<>>, <<>>, <<1, 3, 5, 7>>, <<1>>>>}

\* The user's playlists before the run: none, or a playlist "Shazam Songs"
\* that holds video x1
UserPlaylists ==
    {<<>>,
     <<[id |-> "PL1", title |-> ShazamSongs, videos |-> <<"x1">>]>>}

\* The videos a search returns: "ab" of channel "a", "Abcd" of channel "AB",
\* "ab" of channel "b"
Candidates ==
    {[videoId |-> "x1", title |-> <<1, 3>>, channelTitle |-> <<1>>],
     [videoId |-> "x2", title |-> <<2, 3, 5, 7>>, channelTitle |-> <<2, 4>>],
     [videoId |-> "x3", title |-> <<1, 3>>, channelTitle |-> <<3>>]}

SearchResults == SeqsUpTo(Candidates, MaxCandidates)

\* How a request ends: it succeeds, or raises an error whose text names the
\* quota, or raises another error
Outcomes == {"ok", "quota", "error"}

\* "quota" in error_str.lower() or "quotaExceeded" in error_str or "403" in error_str
IsQuotaError(error_str) == error_str = "quota"

\* The header rows of the files ("Title", "Artist", "Error")
SongsHeader == <<<<40, 17, 39, 23, 9>>, <<2, 35, 39, 17, 37, 39>>>>
UnmatchedHeader == <<<<40, 17, 39, 23, 9>>, <<2, 35, 39, 17, 37, 39>>,
                     <<10, 35, 35, 29, 35>>>>

\* FallbackRows without the songs
FallbackRowsEmpty(list) == <<SongsHeader>>

\* The rows of deduplicated_songs.csv: the header, then a row for each song
FallbackRows(list) == <<SongsHeader>> \o [n \in 1..Len(list) |-> list[n]]

ImportInit ==
    /\ csv_rows \in SeqsUpTo(ImportRows, MaxRows)
    /\ user_playlists \in UserPlaylists
    /\ songs = <<>>
    /\ title_threshold = <<0, 1>>
    /\ artist_threshold = <<0, 1>>
    /\ i = 0
    /\ filtered_songs = <<>>
    /\ removed_songs = <<>>
    /\ MainIdle
    /\ setup = "none"
    /\ playlist_video_ids = {}
    /\ search_items = <<>>
    /\ best_video = <<>>
    /\ best_score = [num |-> 0, den |-> 1]
    /\ unmatched_songs = <<>>
    /\ failed_to_add_songs = <<>>
    /\ calls = <<>>
    /\ files = NoFiles
    /\ pc = "import"
    /\ SimIdle

\* songs = import_songs_from_csv(): the path, the file, its rows; [] when no
\* path is given or the file cannot be read.  Then `if not songs: return`.
ImportSongs ==
    /\ pc = "import"
    /\ \E out \in {"no_path", "not_found", "unreadable", "ok"} :
          LET result == IF out = "ok" THEN import_songs_from_csv(csv_rows) ELSE <<>>
          IN  /\ songs' = result
              /\ pc' = IF result = <<>> THEN "done" ELSE "get_playlist"
    /\ UNCHANGED <<title_threshold, artist_threshold, i, filtered_songs,
                   removed_songs, mainVars, importVars, calls, files>>
    /\ UNCHANGED simVars

\* The id of the first playlist whose title, stripped and lower-cased, equals
\* playlist_title; "" when there is none
FindPlaylist(playlists) ==
    LET Hits == {n \in 1..Len(playlists) :
                    Lower(Strip(playlists[n].title)) = ShazamSongs}
    IN  IF Hits = {} THEN ""
        ELSE playlists[CHOOSE n \in Hits : \A m \in Hits : n <= m].id

\* get_or_create_shazam_playlist, given how get_youtube_client and the two
\* requests end: how it ends (setup), the id it returns ("" for None), the
\* text of the exception it lets through, its requests, the user's playlists
get_or_create_shazam_playlist(playlists, r, list_out, create_out) ==
    LET End(how, id, err, sent, after) ==
            [setup |-> how, playlist_id |-> id, error_str |-> err,
             calls |-> sent, playlists |-> after]
        list == Call("playlists.list", "mine", list_out = "ok")
        create == Call("playlists.insert", "Shazam Songs", create_out = "ok")
        found == FindPlaylist(playlists)
        new == [id |-> "PL2", title |-> ShazamSongs, videos |-> <<>>]
    IN  IF r = "raised" THEN End("auth_raised", "", "error", <<>>, playlists)
        ELSE IF r # "ok" THEN End("auth_failed", "", "", <<>>, playlists)
        ELSE IF list_out # "ok"
             THEN End(IF list_out = "quota" THEN "list_quota" ELSE "list_error",
                      "", "", <<list>>, playlists)
        ELSE IF found # "" THEN End("found", found, "", <<list>>, playlists)
        ELSE IF create_out # "ok"
             THEN End(IF create_out = "quota" THEN "create_quota" ELSE "create_error",
                      "", "", <<list, create>>, playlists)
        ELSE End("created", new.id, "", <<list, create>>, Append(playlists, new))

\* The test that decides for deduplicated_songs.csv when playlist_id is
\* falsy ("" stands for None)
WritesFallback(error_str, id) ==
    (error_str # "" /\ IsQuotaError(error_str)) \/ id = ""

\* playlist_id = get_or_create_shazam_playlist() in its try, and, when there
\* is no playlist id, deduplicated_songs.csv and the return
ImportGetOrCreate ==
    /\ pc = "get_playlist"
    /\ \E env \in AuthEnvs, list_out \in Outcomes, create_out \in Outcomes :
          LET r == get_youtube_client(env, "YOUR_CLIENT_ID_HERE")
              g == get_or_create_shazam_playlist(user_playlists, r, list_out,
                                                 create_out)
          IN  /\ auth' = r
              /\ setup' = g.setup
              /\ playlist_id' = g.playlist_id
              /\ user_playlists' = g.playlists
              /\ calls' = calls \o g.calls
              /\ IF g.playlist_id = ""
                 THEN /\ files' = IF WritesFallback(g.error_str, g.playlist_id)
                                  THEN WriteFile(files, "deduplicated_songs.csv",
                                                 FallbackRows(songs))
                                  ELSE files
                      /\ pc' = "done"
                 ELSE /\ files' = files
                      /\ pc' = "authenticate"
    /\ UNCHANGED <<dedupVars, remote_playlist, eliminar, eliminar_youtube,
                   items_to_remove, idx, success_count, failed_count,
                   csv_rows, playlist_video_ids, search_items, best_video,
                   best_score, unmatched_songs, failed_to_add_songs>>
    /\ UNCHANGED simVars

\* youtube, authenticated = get_youtube_client(), outside any try, and the
\* return when it failed
ImportAuthenticate ==
    /\ pc = "authenticate"
    /\ \E env \in AuthEnvs :
          LET r == get_youtube_client(env, "YOUR_CLIENT_ID_HERE")
          IN  /\ auth' = r
              /\ pc' = CASE r = "ok" -> "list_videos"
                         [] r = "raised" -> "crashed"
                         [] OTHER -> "done"
    /\ UNCHANGED <<dedupVars, remote_playlist, playlist_id, eliminar,
                   eliminar_youtube, items_to_remove, idx, success_count,
                   failed_count, importVars, calls, files>>
    /\ UNCHANGED simVars

\* The videos of the playlist with this id
VideosOf(playlists, id) ==
    LET n == CHOOSE n \in 1..Len(playlists) : playlists[n].id = id
    IN  playlists[n].videos

\* playlist_video_ids = get_playlist_video_ids(youtube, playlist_id), outside
\* any try: every page, or the exception of the request that failed
ImportListVideos ==
    /\ pc = "list_videos"
    /\ LET videos == VideosOf(user_playlists, playlist_id)
           all == NumPages(Len(videos))
       IN  \E pages \in 0..all :
              LET sent == IF pages = all THEN all ELSE pages + 1
              IN  /\ calls' = calls \o
                        [n \in 1..sent |-> Call("playlistItems.list", n, n <= pages)]
                  /\ IF pages = all
                     THEN /\ playlist_video_ids' = Range(videos)
                          /\ pc' = "loop"
                     ELSE /\ playlist_video_ids' = playlist_video_ids
                          /\ pc' = "crashed"
    /\ UNCHANGED <<dedupVars, mainVars, csv_rows, user_playlists, setup,
                   search_items, best_video, best_score, unmatched_songs,
                   failed_to_add_songs, files>>
    /\ UNCHANGED simVars

\* The user's playlists after a video was added to the playlist with this id
Inserted(playlists, id, video_id) ==
    [n \in 1..Len(playlists) |->
        IF playlists[n].id = id
        THEN [playlists[n] EXCEPT !.videos = Append(@, video_id)]
        ELSE playlists[n]]

Unmatched(song, err) == [title |-> song[1], artist |-> song[2], error |-> err]

\* The except clause of a round: the song is unmatched, and with a quota
\* error it is one of failed_to_add_songs
SearchRaised(song, out) ==
    /\ calls' = Append(calls, Call("search.list", song, FALSE))
    /\ unmatched_songs' = Append(unmatched_songs, Unmatched(song, out))
    /\ failed_to_add_songs' =
           IF IsQuotaError(out)
           THEN Append(failed_to_add_songs, Unmatched(song, out))
           ELSE failed_to_add_songs
    /\ UNCHANGED <<search_items, best_video, best_score, playlist_video_ids,
                   user_playlists>>

\* `if best_video and best_score > 0.5` is false: no good match found
NoGoodMatch(song) ==
    /\ calls' = calls \o <<Call("search.list", song, TRUE), Call("sleep", 1, TRUE)>>
    /\ unmatched_songs' = Append(unmatched_songs, Unmatched(song, ""))
    /\ UNCHANGED <<playlist_video_ids, user_playlists>>

\* GoodMatch without the test of playlist_video_ids: always the insert request
GoodMatchNoSkip(song, video_id, insert_ok) ==
    /\ calls' = calls \o <<Call("search.list", song, TRUE),
                           Call("playlistItems.insert", video_id, insert_ok),
                           Call("sleep", 1, TRUE)>>
    /\ playlist_video_ids' =
           IF insert_ok THEN playlist_video_ids \cup {video_id}
           ELSE playlist_video_ids
    /\ user_playlists' =
           IF insert_ok THEN Inserted(user_playlists, playlist_id, video_id)
           ELSE user_playlists
    /\ UNCHANGED unmatched_songs

\* The best video is accepted: skipped when it is in playlist_video_ids,
\* else the insert request, whose exception is printed only
GoodMatch(song, video_id, insert_ok) ==
    IF video_id \in playlist_video_ids
    THEN /\ calls' = calls \o <<Call("search.list", song, TRUE), Call("sleep", 1, TRUE)>>
         /\ insert_ok
         /\ UNCHANGED <<playlist_video_ids, user_playlists, unmatched_songs>>
    ELSE /\ calls' = calls \o <<Call("search.list", song, TRUE),
                                Call("playlistItems.insert", video_id, insert_ok),
                                Call("sleep", 1, TRUE)>>
         /\ playlist_video_ids' =
                IF insert_ok THEN playlist_video_ids \cup {video_id}
                ELSE playlist_video_ids
         /\ user_playlists' =
                IF insert_ok THEN Inserted(user_playlists, playlist_id, video_id)
                ELSE user_playlists
         /\ UNCHANGED unmatched_songs

\* The search answered with items, best the best of them
SearchAnswered(song, items, best, insert_ok) ==
    /\ search_items' = items
    /\ best_video' = best.video
    /\ best_score' = best.score
    /\ IF Accepted(best)
       THEN GoodMatch(song, best.video[1].videoId, insert_ok)
       ELSE insert_ok /\ NoGoodMatch(song)
    /\ UNCHANGED failed_to_add_songs

\* One round of `for idx, (title, artist) in enumerate(songs, 1)`: the
\* search; when it raises, the except clause; when it answers, the best
\* item, the insert request unless the video is in playlist_video_ids, and
\* time.sleep(1)
ImportRound(song) ==
    \/ \E out \in Outcomes \ {"ok"} : SearchRaised(song, out)
    \/ \E items \in SearchResults, insert_ok \in BOOLEAN :
          SearchAnswered(song, items, select_best(song[1], song[2], items), insert_ok)

ImportOne ==
    /\ pc = "loop"
    /\ idx < Len(songs)
    /\ ImportRound(songs[idx + 1])
    /\ idx' = idx + 1
    /\ UNCHANGED <<dedupVars, remote_playlist, auth, playlist_id, eliminar,
                   eliminar_youtube, items_to_remove, success_count,
                   failed_count, csv_rows, setup, files, pc>>
    /\ UNCHANGED simVars

\* After the loop: with unmatched songs, unmatched_songs.csv is opened, its
\* header written, and `processed >= max_songs` raises NameError (max_songs
\* is not defined anywhere); without, the function returns
ImportFinish ==
    /\ pc = "loop"
    /\ idx = Len(songs)
    /\ IF unmatched_songs # <<>>
       THEN /\ files' = WriteFile(files, "unmatched_songs.csv", <<UnmatchedHeader>>)
            /\ pc' = "crashed"
       ELSE /\ files' = files
            /\ pc' = "done"
    /\ UNCHANGED <<dedupVars, mainVars, importVars, calls>>
    /\ UNCHANGED simVars

ImportNext ==
    \/ ImportSongs
    \/ ImportGetOrCreate
    \/ ImportAuthenticate
    \/ ImportListVideos
    \/ ImportOne
    \/ ImportFinish

SpecImport == ImportInit /\ [][ImportNext]_vars

-----------------------------------------------------------------------------
(* Claims on remove_similar_songs, under SpecDedup *)

\* The positions (playlistItemId) of the input a list of songs holds
Placements(list) == {list[n].playlistItemId : n \in 1..Len(list)}

Removed == [n \in 1..Len(removed_songs) |-> removed_songs[n].cancion]

TimesIn(list, song) == Cardinality({n \in 1..Len(list) : list[n] = song})

\* Both similarities of song a against song b reach their thresholds
\* (written out here, apart from the model's AtLeast)
BothReach(a, b) ==
    LET ts == calculate_similarity(a.titulo, b.titulo)
        as == calculate_similarity(a.artista, b.artista)
    IN  /\ ts.num * title_threshold[2] >= title_threshold[1] * ts.den
        /\ as.num * artist_threshold[2] >= artist_threshold[1] * as.den

TitleReaches(a, b) ==
    LET ts == calculate_similarity(a.titulo, b.titulo)
    IN  ts.num * title_threshold[2] >= title_threshold[1] * ts.den

ArtistReaches(a, b) ==
    LET as == calculate_similarity(a.artista, b.artista)
    IN  as.num * artist_threshold[2] >= artist_threshold[1] * as.den

\* C1: every input entry taken so far is, by position, in exactly one of
\* filtered_songs and removed_songs (as 'cancion'), so the two lengths add up
\* to the number of entries taken (all of them at the return), and
\* filtered_songs is a subsequence of the input in input order.
C1_Partition ==
    /\ Len(filtered_songs) + Len(removed_songs) = i
    /\ pc = "returned" => i = Len(songs)
    /\ \A n \in 1..i :
          TimesIn(filtered_songs, songs[n]) + TimesIn(Removed, songs[n]) = 1
    /\ \A k \in 1..Len(filtered_songs) :
          /\ filtered_songs[k].playlistItemId \in 1..i
          /\ filtered_songs[k] = songs[filtered_songs[k].playlistItemId]
    /\ \A k \in 1..(Len(filtered_songs) - 1) :
          filtered_songs[k].playlistItemId < filtered_songs[k + 1].playlistItemId

C1_Witness ==
    /\ pc = "returned"
    /\ Len(songs) = 3
    /\ Len(filtered_songs) = 2
    /\ Len(removed_songs) = 1

\* C2 as claimed: no entry id (the video's id) is both the id of a kept entry
\* and the id of a removed entry.
C2_NoSharedVideoId ==
    pc = "returned" =>
        {filtered_songs[k].id : k \in 1..Len(filtered_songs)}
            \cap {Removed[k].id : k \in 1..Len(removed_songs)} = {}

\* C2 as amended: no placement (playlistItemId) is both the placement of a
\* kept entry and the placement of a removed entry.
C2_NoSharedPlacement ==
    Placements(filtered_songs) \cap Placements(Removed) = {}

\* a video that is in the playlist twice: one placement kept, one removed
C2_Witness ==
    /\ pc = "returned"
    /\ \E k \in 1..Len(filtered_songs), r \in 1..Len(removed_songs) :
          /\ filtered_songs[k].id = Removed[r].id
          /\ filtered_songs[k].playlistItemId # Removed[r].playlistItemId

\* C3: an entry is removed if and only if some entry kept before it reaches
\* both thresholds against it (>=, both of them); an entry that reaches only
\* one threshold against every entry kept before it is kept.
C3_DualThreshold ==
    \A n \in 1..i :
        LET dup == \E k \in 1..Len(filtered_songs) :
                      /\ filtered_songs[k].playlistItemId < n
                      /\ BothReach(songs[n], filtered_songs[k])
        IN  /\ dup <=> TimesIn(Removed, songs[n]) = 1
            /\ ~dup <=> TimesIn(filtered_songs, songs[n]) = 1

\* an entry kept although its title reaches the threshold against an earlier
\* kept entry, and an entry removed on a title similarity equal to the threshold
C3_Witness ==
    /\ pc = "returned"
    /\ \E k, m \in 1..Len(filtered_songs) :
          /\ k < m
          /\ TitleReaches(filtered_songs[m], filtered_songs[k])
          /\ ~ArtistReaches(filtered_songs[m], filtered_songs[k])
    /\ \E r \in 1..Len(removed_songs) :
          LET ts == calculate_similarity(removed_songs[r].cancion.titulo,
                                         removed_songs[r].similar_a.titulo)
          IN  ts.num * title_threshold[2] = title_threshold[1] * ts.den

\* C4: the evidence of a removed entry names the earliest kept entry that
\* reaches both thresholds against it, whatever the later ones score, and a
\* removed entry has one evidence record.
C4_FirstMatchWins ==
    \A r \in 1..Len(removed_songs) :
        LET e == removed_songs[r].cancion
            a == removed_songs[r].similar_a
        IN  /\ TimesIn(Removed, e) = 1
            /\ \E k \in 1..Len(filtered_songs) :
                  /\ filtered_songs[k] = a
                  /\ a.playlistItemId < e.playlistItemId
                  /\ BothReach(e, a)
                  /\ \A m \in 1..(k - 1) : ~BothReach(e, filtered_songs[m])

\* the removed entry matches two kept entries, the later one better on title
C4_Witness ==
    /\ pc = "returned"
    /\ \E r \in 1..Len(removed_songs), k \in 1..Len(filtered_songs) :
          LET e == removed_songs[r].cancion
              a == removed_songs[r].similar_a
              b == filtered_songs[k]
              ta == calculate_similarity(e.titulo, a.titulo)
              tb == calculate_similarity(e.titulo, b.titulo)
          IN  /\ a.playlistItemId < b.playlistItemId
              /\ b.playlistItemId < e.playlistItemId
              /\ BothReach(e, b)
              /\ tb.num * ta.den > ta.num * tb.den

-----------------------------------------------------------------------------
(* Claims on main (index.py), under SpecMain *)

IsDelete(c) == c.op = "playlistItems.delete"

\* The delete requests sent, in order
Deletes == SelectSeq(calls, IsDelete)

\* C5: a delete request is sent only for the playlistItemId of a removed
\* song, and only after the user answered yes to both prompts; the
\* playlistItemId of a kept song is never sent.
C5_DeleteOnlyRemoved ==
    \A n \in 1..Len(Deletes) :
        /\ Yes(eliminar)
        /\ Yes(eliminar_youtube)
        /\ Deletes[n].arg \in Placements(Removed)
        /\ Deletes[n].arg \notin Placements(filtered_songs)

\* two songs kept, one removed and its delete request sent
C5_Witness ==
    /\ pc = "done"
    /\ Len(filtered_songs) = 2
    /\ Len(Deletes) = 1
    /\ Deletes[1].arg = removed_songs[1].cancion.playlistItemId

\* C6: the delete loop sends one request for each of items_to_remove, in
\* their order, whether or not earlier requests failed; when it has returned
\* every item has had its request, success_count + failed_count is the
\* number of items and success_count the number of requests that succeeded.
C6_DeleteAll ==
    /\ Len(Deletes) = idx
    /\ \A n \in 1..Len(Deletes) : Deletes[n].arg = items_to_remove[n]
    /\ success_count = Cardinality({n \in 1..Len(Deletes) : Deletes[n].ok})
    /\ failed_count = Cardinality({n \in 1..Len(Deletes) : ~Deletes[n].ok})
    /\ pc = "done" =>
          /\ idx = Len(items_to_remove)
          /\ success_count + failed_count = Len(items_to_remove)

\* two items, the first request failed and the second succeeded
C6_Witness ==
    /\ pc = "done"
    /\ Len(items_to_remove) = 2
    /\ Len(Deletes) = 2
    /\ ~Deletes[1].ok
    /\ Deletes[2].ok


-----------------------------------------------------------------------------
(* Claims on add_songs_to_shazam_playlist, under SpecImport *)

Half == [num |-> 1, den |-> 2]

\* The last request has this name
LastIs(op) == calls # <<>> /\ calls[Len(calls)].op = op

\* The song of the last search request
Searched ==
    LET n == CHOOSE n \in 1..Len(calls) :
                 /\ calls[n].op = "search.list"
                 /\ \A m \in (n + 1)..Len(calls) : calls[m].op # "search.list"
    IN  calls[n].arg

\* The score of the n-th item of the last search response
ScoreOf(n) == Score(Searched[1], Searched[2], search_items[n])

\* The items no item of the response has a higher score than
Top ==
    {n \in 1..Len(search_items) :
        \A m \in 1..Len(search_items) : ~Greater(ScoreOf(m), ScoreOf(n))}

\* The first of them in the order of the response
FirstTop == CHOOSE n \in Top : \A m \in Top : n <= m

\* The request before the sleep of the last round
BeforeSleep == calls[Len(calls) - 1]

\* C7: after a round whose search answered (the round ends with the sleep),
\* when the response has items and the highest score among them is above
\* 0.5, the selected video is the first item in response order that has the
\* highest score, best_score is its score, the song is not unmatched, and
\* the video is inserted or already in the playlist; when the response is
\* empty or the highest score is not above 0.5, no video is inserted and the
\* song is appended to the unmatched songs.
C7_BestMatch ==
    LastIs("sleep") =>
        IF search_items # <<>> /\ Greater(ScoreOf(FirstTop), Half)
        THEN /\ best_video = <<search_items[FirstTop]>>
             /\ best_score = ScoreOf(FirstTop)
             /\ Unmatched(Searched, "") \notin Range(unmatched_songs)
             /\ \/ /\ BeforeSleep.op = "playlistItems.insert"
                   /\ BeforeSleep.arg = search_items[FirstTop].videoId
                \/ /\ BeforeSleep.op = "search.list"
                   /\ search_items[FirstTop].videoId \in playlist_video_ids
        ELSE /\ BeforeSleep.op = "search.list"
             /\ unmatched_songs # <<>>
             /\ unmatched_songs[Len(unmatched_songs)] = Unmatched(Searched, "")

\* A response of two different videos that both have the highest score, above
\* 0.5: the first one was selected and inserted
C7_Witness ==
    /\ LastIs("sleep")
    /\ Len(search_items) = 2
    /\ search_items[1] # search_items[2]
    /\ Top = {1, 2}
    /\ Greater(ScoreOf(1), Half)
    /\ best_video = <<search_items[1]>>
    /\ BeforeSleep.op = "playlistItems.insert"
    /\ BeforeSleep.arg = search_items[1].videoId

\* A response whose best item scores exactly 0.5: nothing is selected
C7_WitnessAtThreshold ==
    /\ LastIs("sleep")
    /\ search_items # <<>>
    /\ ~Greater(ScoreOf(FirstTop), Half)
    /\ ~Greater(Half, ScoreOf(FirstTop))
    /\ BeforeSleep.op = "search.list"
    /\ unmatched_songs[Len(unmatched_songs)] = Unmatched(Searched, "")

\* C8: whatever the outcome of each request (the playlist's video ids, the
\* searches, the inserts) and whatever the search responses,
\* add_songs_to_shazam_playlist does not end on an exception nothing catches.
C8_NoFailureEscapes == pc # "crashed"

\* C8, the part that holds: an exception of a search or of an insert request
\* is caught in the round, and the loop goes on to the next song
C8_LoopCatches ==
    (pc = "crashed" /\ ~LastIs("playlistItems.list") /\ auth = "ok")
        => idx = Len(songs)

\* A failed search and a failed insert after which the loop went on
C8_LoopCatchesWitness ==
    /\ pc = "loop"
    /\ idx = 2
    /\ \E n \in 1..Len(calls) : calls[n].op = "search.list" /\ ~calls[n].ok
    /\ \E n \in 1..Len(calls) : calls[n].op = "playlistItems.insert" /\ ~calls[n].ok

\* C9: when get_youtube_client reports that the authentication failed, the
\* import run makes no request and writes no file.
C9_AuthFailureAborts ==
    setup = "auth_failed" => calls = <<>> /\ files = NoFiles

\* C9, the part that holds: after a failed authentication main (index.py)
\* makes no request and writes no file
C9_MainAborts ==
    (pc \in {"done", "crashed"} /\ AuthFailed(auth))
        => calls = <<>> /\ files = NoFiles

\* The position in the CSV file of the first row that gives this song
FirstRow(song) ==
    CHOOSE n \in 2..Len(csv_rows) :
        /\ <<csv_rows[n][3], csv_rows[n][4]>> = song
        /\ \A m \in 2..(n - 1) : <<csv_rows[m][3], csv_rows[m][4]>> # song

\* songs holds each (title, artist) of the rows after the first once, in the
\* order of the rows
Deduplicated ==
    /\ Range(songs) = {<<csv_rows[n][3], csv_rows[n][4]>> : n \in 2..Len(csv_rows)}
    /\ \A m, n \in 1..Len(songs) : m < n => FirstRow(songs[m]) < FirstRow(songs[n])

\* C10: when the request that lists or the request that creates the
\* playlist fails with a quota error, deduplicated_songs.csv holds, after
\* its header row, one row for each deduplicated song in the order they were
\* read, the run has ended, and no search or insert request was made.
C10_QuotaFallback ==
    setup \in {"list_quota", "create_quota"} =>
        /\ pc = "done"
        /\ Written("deduplicated_songs.csv")
        /\ Len(files["deduplicated_songs.csv"]) = Len(songs) + 1
        /\ \A n \in 1..Len(songs) : files["deduplicated_songs.csv"][n + 1] = songs[n]
        /\ Deduplicated
        /\ \A n \in 1..Len(calls) :
              calls[n].op \notin {"search.list", "playlistItems.insert"}

\* The creation of the playlist failed on the quota, for a file of three
\* rows that gives two songs
C10_Witness ==
    /\ setup = "create_quota"
    /\ Len(csv_rows) = 3
    /\ Len(songs) = 2
    /\ Written("deduplicated_songs.csv")
    /\ Len(files["deduplicated_songs.csv"]) = 3


\* The songs the run has a failure record of
Recorded ==
    {<<r.title, r.artist>> : r \in Range(unmatched_songs) \cup Range(failed_to_add_songs)}

\* C11: in the import loop, the song of every insert request that failed is
\* in the failure records of the run (unmatched_songs, failed_to_add_songs).
C11_InsertFailureRecorded ==
    \A n \in 2..Len(calls) :
        (calls[n].op = "playlistItems.insert" /\ ~calls[n].ok)
            => calls[n - 1].arg \in Recorded

\* C11, the part that holds: after an insert request that failed, the round
\* ends with its sleep and the loop goes on, so that at its end one search
\* was made for every song
C11_LoopContinues ==
    (pc = "loop" /\ idx = Len(songs)) =>
        Len(SelectSeq(calls, LAMBDA c : c.op = "search.list")) = Len(songs)

\* The insert for the first song failed and the second song was searched
C11_LoopContinuesWitness ==
    /\ pc = "loop"
    /\ idx = 2
    /\ \E n \in 2..Len(calls) :
          /\ calls[n].op = "playlistItems.insert"
          /\ ~calls[n].ok
          /\ calls[n - 1].arg = songs[1]
          /\ \E m \in (n + 1)..Len(calls) :
                calls[m].op = "search.list" /\ calls[m].arg = songs[2]


\* Requests m and n are two successive searches
Successive(m, n) ==
    /\ m < n
    /\ calls[m].op = "search.list"
    /\ calls[n].op = "search.list"
    /\ \A k \in (m + 1)..(n - 1) : calls[k].op # "search.list"

\* There is a sleep between requests m and n
SleepBetween(m, n) == \E k \in (m + 1)..(n - 1) : calls[k].op = "sleep"

\* C12: between any two successive search requests of the import loop there
\* is a sleep, whatever the outcome of the earlier search.
C12_SleepBetweenSearches ==
    \A m, n \in 1..Len(calls) : Successive(m, n) => SleepBetween(m, n)

\* C12, the part that holds: there is a sleep after every search that
\* answered, before the next search
C12_SleepAfterAnswer ==
    \A m, n \in 1..Len(calls) :
        (Successive(m, n) /\ calls[m].ok) => SleepBetween(m, n)

\* Two successive searches, the earlier of which answered and was followed
\* by an insert
C12_SleepAfterAnswerWitness ==
    \E m, n \in 1..Len(calls) :
        /\ Successive(m, n)
        /\ calls[m].ok
        /\ calls[m + 1].op = "playlistItems.insert"
        /\ SleepBetween(m, n)


-----------------------------------------------------------------------------
(* Claims on import_songs_from_csv, under SpecParse *)

\* The (title, artist) of row n of the file
Pair(n) == <<csv_rows[n][3], csv_rows[n][4]>>

\* Row n has the required number of fields
LongEnough(n) == Len(csv_rows[n]) >= 4

\* Row n is ("title", "artist") but for the case of the letters
HeaderRow(n) ==
    Lower(csv_rows[n][3]) = TitleWord /\ Lower(csv_rows[n][4]) = ArtistWord

\* Row n is ("title", "artist") but for the case of the letters and for
\* spaces around the fields
HeaderRowStripped(n) ==
    /\ Lower(Strip(csv_rows[n][3])) = TitleWord
    /\ Lower(Strip(csv_rows[n][4])) = ArtistWord

\* songs holds the pairs of the rows of K, each once, in the order of the
\* first row that gives it
FirstSeen(K) ==
    /\ Range(songs) = {Pair(n) : n \in K}
    /\ \A m, n \in 1..Len(songs) : m # n => songs[m] # songs[n]
    /\ \A m, n \in 1..Len(songs) :
          m < n => \E r \in K : /\ Pair(r) = songs[m]
                                /\ \A q \in K : Pair(q) = songs[n] => r < q

\* C13 as stated: the songs are the pairs of all the rows of the file that
\* have the required number of fields and are not the header, each once in
\* first-seen order.
C13_AllRowsButHeader ==
    pc = "parsed" =>
        FirstSeen({n \in 1..Len(csv_rows) : LongEnough(n) /\ ~HeaderRow(n)})

\* C13 amended: the songs are the pairs of the rows after the first one
\* that have the required number of fields, a title and an artist that are
\* not empty, and are not the header (fields trimmed, case ignored), each
\* once (exact pair equality) in first-seen order.
C13_RowsAfterFirst ==
    pc = "parsed" =>
        FirstSeen({n \in 2..Len(csv_rows) :
                      /\ LongEnough(n)
                      /\ csv_rows[n][3] # <<>>
                      /\ csv_rows[n][4] # <<>>
                      /\ ~HeaderRowStripped(n)})

\* A file of three rows with title and artist, none a header, the second
\* and the third equal: the first row is skipped, the pair is returned once
C13_Witness ==
    /\ pc = "parsed"
    /\ Len(csv_rows) = 3
    /\ \A n \in 1..3 : /\ LongEnough(n)
                       /\ csv_rows[n][3] # <<>>
                       /\ csv_rows[n][4] # <<>>
                       /\ ~HeaderRowStripped(n)
    /\ Pair(1) # Pair(2)
    /\ Pair(2) = Pair(3)
    /\ songs = <<Pair(2)>>

\* A file whose second row has a title and no artist: the row is skipped,
\* the third row is returned
C13_WitnessSkipsEmpty ==
    /\ pc = "parsed"
    /\ Len(csv_rows) = 3
    /\ LongEnough(2)
    /\ csv_rows[2][4] = <<>>
    /\ LongEnough(3)
    /\ songs = <<Pair(3)>>


-----------------------------------------------------------------------------
(* Claims on get_or_create_shazam_playlist, under SpecImport *)

\* The playlists the user had before the run that are named 'Shazam Songs',
\* the titles trimmed and the case of the letters ignored
NamedShazamSongs ==
    {n \in 1..Len(user_playlists) :
        /\ user_playlists[n].id # "PL2"
        /\ Lower(Strip(user_playlists[n].title)) = Lower(ShazamSongs)}

\* C14: when the listed playlists include one named 'Shazam Songs' (trimmed,
\* case ignored), get_or_create_shazam_playlist returns its id and sends no
\* request that creates a playlist.
C14_FoundNotCreated ==
    (setup \notin {"none", "auth_raised", "auth_failed", "list_quota", "list_error"}
     /\ NamedShazamSongs # {})
        => /\ setup = "found"
           /\ \E n \in NamedShazamSongs : playlist_id = user_playlists[n].id
           /\ \A n \in 1..Len(calls) : calls[n].op # "playlists.insert"

\* C14, the part that holds: without such a playlist, the playlist is
\* created and its id returned, unless the request fails
C14_CreatedWhenMissing ==
    (setup \notin {"none", "auth_raised", "auth_failed", "list_quota", "list_error"}
     /\ NamedShazamSongs = {})
        => /\ setup \in {"created", "create_quota", "create_error"}
           /\ \E n \in 1..Len(calls) : calls[n].op = "playlists.insert"
           /\ setup = "created" => playlist_id = "PL2"

\* The user had no playlist and one was created
C14_CreatedWhenMissingWitness ==
    /\ setup = "created"
    /\ NamedShazamSongs = {}
    /\ playlist_id = "PL2"
    /\ Len(user_playlists) = 1


-----------------------------------------------------------------------------
(* Claims on calculate_similarity, under SpecSim *)

\* C15: calculate_similarity is symmetric: the value returned for
\* (str1, str2) is the value for (str2, str1).
C15_Symmetric ==
    pc = "compared" => similarity = calculate_similarity(string2, string1)

\* C15, the part that holds: the value is 2 * M / T, T the sum of the two
\* lengths and M a number of matched characters, so it lies between 0 and 1,
\* does not depend on the case of the letters, and is 1 exactly for strings
\* that are equal but for the case
C15_RatioOfLowered ==
    pc = "compared" =>
        /\ similarity.num >= 0
        /\ similarity.num <= similarity.den
        /\ similarity = ratio(Lower(string1), Lower(string2))
        /\ (similarity.num = similarity.den) <=> (Lower(string1) = Lower(string2))

\* Two different strings of three characters that are equal but for the
\* case of their letters: 1.0
C15_RatioOfLoweredWitness ==
    /\ pc = "compared"
    /\ Len(string1) = 3
    /\ Len(string2) = 3
    /\ string1 # string2
    /\ Lower(string1) = Lower(string2)
    /\ similarity.num = similarity.den


-----------------------------------------------------------------------------
(* Claims on the order of the songs in main, under SpecMain *)

\* The position of this song in the sequence remove_similar_songs is given
PlaceInSongs(song) == CHOOSE n \in 1..Len(songs) : songs[n] = song

\* C16 as stated: remove_similar_songs is given the entries in the order they were
\* fetched (playlistItemId is the position in the fetched playlist), so a
\* removed entry was fetched after the kept entry it is a duplicate of.
C16_FetchOrder ==
    /\ \A m, n \in 1..Len(songs) :
          m < n => songs[m].playlistItemId < songs[n].playlistItemId
    /\ \A n \in 1..Len(removed_songs) :
          removed_songs[n].similar_a.playlistItemId
              < removed_songs[n].cancion.playlistItemId

\* C16 amended: remove_similar_songs is given the entries sorted by
\* lower-cased title, entries of equal key in the order fetched, and a
\* removed entry comes after the kept entry it is a duplicate of in that
\* sorted sequence.
C16_TitleOrder ==
    /\ \A m, n \in 1..Len(songs) :
          m < n => \/ LexLess(Lower(songs[m].titulo), Lower(songs[n].titulo))
                   \/ /\ Lower(songs[m].titulo) = Lower(songs[n].titulo)
                      /\ songs[m].playlistItemId < songs[n].playlistItemId
    /\ \A n \in 1..Len(removed_songs) :
          PlaceInSongs(removed_songs[n].similar_a)
              < PlaceInSongs(removed_songs[n].cancion)

\* An entry was removed as the duplicate of an entry fetched after it
C16_TitleOrderWitness ==
    /\ removed_songs # <<>>
    /\ removed_songs[1].similar_a.playlistItemId
           > removed_songs[1].cancion.playlistItemId
    /\ PlaceInSongs(removed_songs[1].similar_a)
           < PlaceInSongs(removed_songs[1].cancion)


-----------------------------------------------------------------------------
(* Idempotence of remove_similar_songs, under SpecDedup *)

\* C17: when remove_similar_songs has returned, applying it to the songs it
\* kept, with the same thresholds, returns the same songs and removes none;
\* and no kept song reaches both thresholds against a song kept before it.
C17_Idempotent ==
    pc = "returned" =>
        /\ remove_similar_songs(filtered_songs, title_threshold, artist_threshold)
               = [filtered |-> filtered_songs, removed |-> <<>>]
        /\ \A m, n \in 1..Len(filtered_songs) :
              m < n => ~BothReach(filtered_songs[n], filtered_songs[m])

\* A run that removed a song and kept at least two
C17_Witness ==
    /\ pc = "returned"
    /\ removed_songs # <<>>
    /\ Len(filtered_songs) >= 2


-----------------------------------------------------------------------------
(* Claims on playlist_video_ids, under SpecImport *)

\* Request n is an insert request
IsInsert(n) == calls[n].op = "playlistItems.insert"

\* The videos of the destination playlist, in order: those it held when the
\* run fetched them, then those the run inserted
Destination == VideosOf(user_playlists, playlist_id)

\* The videos the run inserted, in order
InsertedVideos ==
    LET done == SelectSeq(calls, LAMBDA c : c.op = "playlistItems.insert" /\ c.ok)
    IN  [n \in 1..Len(done) |-> done[n].arg]

\* C18: in the loop and after it, no insert request names a video the
\* destination playlist held when it was fetched or a video an earlier
\* insert request of the run added; playlist_video_ids holds the videos
\* fetched and every video added since; no video is in the destination
\* playlist twice.
C18_NoDoubleInsert ==
    pc \in {"loop", "done", "crashed"} /\ setup \in {"found", "created"}
    /\ (\E n \in 1..Len(calls) : calls[n].op = "playlistItems.list" /\ calls[n].ok)
    => LET fetched == SubSeq(Destination, 1, Len(Destination) - Len(InsertedVideos))
       IN  /\ SubSeq(Destination, Len(fetched) + 1, Len(Destination)) = InsertedVideos
           /\ \A n \in 1..Len(calls) :
                 IsInsert(n) =>
                     /\ calls[n].arg \notin Range(fetched)
                     /\ \A m \in 1..(n - 1) :
                           (IsInsert(m) /\ calls[m].ok) => calls[m].arg # calls[n].arg
           /\ playlist_video_ids = Range(fetched) \cup Range(InsertedVideos)
           /\ \A m, n \in 1..Len(Destination) :
                 m # n => Destination[m] # Destination[n]

\* The second song selects, with a score above 0.5, the video that was
\* inserted for the first song: no insert request is sent for it
C18_Witness ==
    /\ pc = "loop"
    /\ idx = 2
    /\ LastIs("sleep")
    /\ BeforeSleep.op = "search.list"
    /\ Accepted([score |-> best_score, video |-> best_video])
    /\ Len(InsertedVideos) = 1
    /\ best_video[1].videoId = InsertedVideos[1]
    /\ Destination = InsertedVideos

====
